---- MODULE Spec2Model ----
(***************************************************************************)
(* Model of the two utility scripts of the image pipeline:                 *)
(*   src/utils/postprocessing.py  (summary cleaner)                        *)
(*   src/utils/preprocessing.py   (image preprocessor)                     *)
(*                                                                         *)
(* Python values are modelled as follows.                                  *)
(*   str   : [t |-> "str",  s |-> <<c1, ..., cn>>]   (one-character strings)*)
(*   dict  : [t |-> "dict", items |-> << [k |-> key, v |-> value], ... >>] *)
(*           in insertion order, keys pairwise distinct; a key is the bare *)
(*           character sequence of a str                                   *)
(*   None  : [t |-> "None"]                                                *)
(* A file is NoFile, or File(text) with text a sequence of characters.     *)
(***************************************************************************)
EXTENDS Integers, Sequences, FiniteSets, TLC

VARIABLES
    pc,                 \* position of the running operation / script
    fs,                 \* file system: path -> NoFile or File(text)
    output_path,        \* save_cleaned_data's output_path argument
    summary,            \* the mapping handed to clean_data (the caller's object)
    cleaned_summary,    \* clean_data's result / save_cleaned_data's argument
    cleaned_again,      \* the result of clean_data applied to its own result
    reread,             \* what a JSON read of the written file yields
    processed_summaries,\* process_summaries' result
    raised,             \* the exception that ended the operation, if any
    console,            \* what was printed, in order
    trace,              \* the operations the script has carried out, in order
    image_path,         \* the file a preprocessing function is called on
    image,              \* the array / tensor a preprocessing function holds
    target_size,        \* preprocess_segmented_object's target_size argument
    listing,            \* os.listdir's result: the entries of the directory
    next_entry,         \* the entry the for loop over the listing is at
    preprocessed_images \* preprocess_images_in_directory's accumulator

cleanerVars == <<summary, cleaned_summary, cleaned_again, reread,
                 processed_summaries, output_path, trace>>
imageVars == <<image_path, image, target_size, listing, next_entry,
               preprocessed_images>>

vars == <<pc, fs, raised, console, cleanerVars, imageVars>>

\* Python's None
None == [t |-> "None"]
\* no exception was raised
NoException == "NoException"
\* a file: absent, or holding a text
NoFile == [t |-> "absent"]
File(text) == [t |-> "file", text |-> text]

-----------------------------------------------------------------------------
(* Bounds of the model *)

\* greatest number of entries of a summary mapping
MaxEntries == 2

-----------------------------------------------------------------------------
(* Python values *)

Str(s) == [t |-> "str", s |-> s]
Dict(items) == [t |-> "dict", items |-> items]
Item(k, v) == [k |-> k, v |-> v]

IsDict(v) == v.t = "dict"

\* dict.keys() as a set
Keys(d) == {d.items[i].k : i \in 1..Len(d.items)}

\* key in d
Has(d, k) == \E i \in 1..Len(d.items) : d.items[i].k = k

\* d[k], defined when Has(d, k)
Get(d, k) == d.items[CHOOSE i \in 1..Len(d.items) : d.items[i].k = k].v

\* d[k] = v: a new key is appended, an existing key keeps its position
Put(d, k, v) ==
    IF Has(d, k)
    THEN Dict([i \in 1..Len(d.items) |->
                 IF d.items[i].k = k THEN Item(k, v) ELSE d.items[i]])
    ELSE Dict(Append(d.items, Item(k, v)))

\* two dicts are equal in Python when they hold the same keys with equal values
DictEq(a, b) ==
    /\ Keys(a) = Keys(b)
    /\ \A k \in Keys(a) : Get(a, k) = Get(b, k)

EmptyDict == Dict(<<>>)

-----------------------------------------------------------------------------
(* String literals of postprocessing.py, as character sequences *)

IdentifiedClass == <<"I","d","e","n","t","i","f","i","e","d"," ","C","l","a","s","s">>
ExtractedText == <<"E","x","t","r","a","c","t","e","d"," ","T","e","x","t">>
Unknown == <<"U","n","k","n","o","w","n">>
EmptyString == <<>>

-----------------------------------------------------------------------------
(* clean_data *)

\* CleanCondition with `or` in place of `and`
CleanConditionOr(value) ==
    IF ~Has(value, IdentifiedClass) THEN "raise"
    ELSE IF Get(value, IdentifiedClass) # Str(Unknown) THEN "true"
    ELSE IF ~Has(value, ExtractedText) THEN "raise"
    ELSE IF Get(value, ExtractedText) # Str(EmptyString) THEN "true"
    ELSE "false"

\* CleanCondition reading both fields before it compares either
CleanConditionEager(value) ==
    IF ~Has(value, IdentifiedClass) \/ ~Has(value, ExtractedText) THEN "raise"
    ELSE IF /\ Get(value, IdentifiedClass) # Str(Unknown)
            /\ Get(value, ExtractedText) # Str(EmptyString) THEN "true"
    ELSE "false"

\* the condition of the if statement for one record: "raise" for a KeyError,
\* else the truth value.  Python's `and` evaluates its right operand only
\* when the left one is true.
CleanCondition(value) ==
    IF ~Has(value, IdentifiedClass) THEN "raise"
    ELSE IF Get(value, IdentifiedClass) = Str(Unknown) THEN "false"
    ELSE IF ~Has(value, ExtractedText) THEN "raise"
    ELSE IF Get(value, ExtractedText) # Str(EmptyString) THEN "true"
    ELSE "false"

\* CleanLoop leaving the loop at the first record it rejects
RECURSIVE CleanLoopBreak(_, _, _)
CleanLoopBreak(items, i, acc) ==
    IF i > Len(items) THEN [raised |-> NoException, ret |-> acc]
    ELSE LET c == CleanCondition(items[i].v) IN
         IF c = "raise" THEN [raised |-> "KeyError", ret |-> None]
         ELSE IF c = "true"
              THEN CleanLoopBreak(items, i + 1, Put(acc, items[i].k, items[i].v))
              ELSE [raised |-> NoException, ret |-> acc]

\* the for loop from item i on, with cleaned_summary built so far in acc
RECURSIVE CleanLoop(_, _, _)
CleanLoop(items, i, acc) ==
    IF i > Len(items) THEN [raised |-> NoException, ret |-> acc]
    ELSE LET c == CleanCondition(items[i].v) IN
         IF c = "raise" THEN [raised |-> "KeyError", ret |-> None]
         ELSE IF c = "true"
              THEN CleanLoop(items, i + 1, Put(acc, items[i].k, items[i].v))
              ELSE CleanLoop(items, i + 1, acc)

\* clean_data(summary): what it returns, or the exception it raises
clean_data(m) == CleanLoop(m.items, 1, EmptyDict)

-----------------------------------------------------------------------------
(* json.dump(obj, f, indent=4) and json.load(f)                            *)
(* A character is a one-character string; the non-ASCII character U+00e9   *)
(* is written "U+00e9".                                                    *)

Quote == "\""
Backslash == "\\"
Newline == "\n"
NonAscii == {"U+00e9"}
HexDigits == {"0","1","2","3","4","5","6","7","8","9","a","b","c","d","e","f"}

\* the four hexadecimal digits of a non-ASCII character's code point
HexOf(c) == CASE c = "U+00e9" -> <<"0","0","e","9">>

\* EscapeChar that writes a quote as it is
EscapeCharRawQuote(c) ==
    IF c = Backslash THEN <<Backslash, Backslash>>
    ELSE IF c = Newline THEN <<Backslash, "n">>
    ELSE IF c \in NonAscii THEN <<Backslash, "u">> \o HexOf(c)
    ELSE <<c>>

\* one character of a string as json.dump writes it (ensure_ascii is on)
EscapeChar(c) ==
    IF c = Quote THEN <<Backslash, Quote>>
    ELSE IF c = Backslash THEN <<Backslash, Backslash>>
    ELSE IF c = Newline THEN <<Backslash, "n">>
    ELSE IF c \in NonAscii THEN <<Backslash, "u">> \o HexOf(c)
    ELSE <<c>>

RECURSIVE EscapeAll(_)
EscapeAll(s) == IF s = <<>> THEN <<>> ELSE EscapeChar(Head(s)) \o EscapeAll(Tail(s))

\* a str between quotes
EncodeString(s) == <<Quote>> \o EscapeAll(s) \o <<Quote>>

\* the line break and indentation json.dump writes at nesting level n
RECURSIVE Spaces(_)
Spaces(n) == IF n = 0 THEN <<>> ELSE <<" ">> \o Spaces(n - 1)
IndentWidth == 4
NewlineIndent(level) == <<Newline>> \o Spaces(IndentWidth * level)

RECURSIVE EncodeValue(_, _)
RECURSIVE EncodeItems(_, _, _)
\* the items of a dict from item i on, separated by "," and a line break
EncodeItems(items, i, level) ==
    IF i > Len(items) THEN <<>>
    ELSE (IF i > 1 THEN <<",">> ELSE <<>>)
         \o NewlineIndent(level)
         \o EncodeString(items[i].k) \o <<":", " ">>
         \o EncodeValue(items[i].v, level)
         \o EncodeItems(items, i + 1, level)

\* a str or a dict at nesting level `level`
EncodeValue(v, level) ==
    IF v.t = "str" THEN EncodeString(v.s)
    ELSE IF v.items = <<>> THEN <<"{", "}">>
    ELSE <<"{">> \o EncodeItems(v.items, 1, level + 1)
         \o NewlineIndent(level) \o <<"}">>

\* the text json.dump(obj, f, indent=4) writes
json_dump(obj) == EncodeValue(obj, 0)

Whitespace == {" ", Newline, "\t", "\r"}

RECURSIVE SkipWhitespace(_, _)
SkipWhitespace(txt, i) ==
    IF i <= Len(txt) /\ txt[i] \in Whitespace THEN SkipWhitespace(txt, i + 1) ELSE i

Fail == [ok |-> FALSE]
Parsed(v, pos) == [ok |-> TRUE, val |-> v, pos |-> pos]

\* the decoder's string scanner from position i, just after the opening
\* quote; acc holds the characters read so far
RECURSIVE ScanString(_, _, _)
ScanString(txt, i, acc) ==
    IF i > Len(txt) THEN Fail
    ELSE IF txt[i] = Quote THEN Parsed(acc, i + 1)
    ELSE IF txt[i] \in {Newline, "\t", "\r"} THEN Fail
    ELSE IF txt[i] = Backslash THEN
        IF i + 1 > Len(txt) THEN Fail
        ELSE IF txt[i + 1] \in {Quote, Backslash, "/"}
             THEN ScanString(txt, i + 2, Append(acc, txt[i + 1]))
        ELSE IF txt[i + 1] = "n" THEN ScanString(txt, i + 2, Append(acc, Newline))
        ELSE IF txt[i + 1] = "t" THEN ScanString(txt, i + 2, Append(acc, "\t"))
        ELSE IF txt[i + 1] = "r" THEN ScanString(txt, i + 2, Append(acc, "\r"))
        ELSE IF txt[i + 1] = "u" THEN
            IF i + 5 <= Len(txt) /\ \A j \in (i + 2)..(i + 5) : txt[j] \in HexDigits
            THEN ScanString(txt, i + 6,
                     Append(acc, "U+" \o txt[i + 2] \o txt[i + 3] \o txt[i + 4] \o txt[i + 5]))
            ELSE Fail
        ELSE Fail
    ELSE ScanString(txt, i + 1, Append(acc, txt[i]))

RECURSIVE ParseValue(_, _)
RECURSIVE ParseMembers(_, _, _)
\* the members of an object from position i, which is at a key's opening
\* quote; acc is the dict built so far
ParseMembers(txt, i, acc) ==
    IF i > Len(txt) \/ txt[i] # Quote THEN Fail
    ELSE LET key == ScanString(txt, i + 1, <<>>) IN
         IF ~key.ok THEN Fail
         ELSE LET colon == SkipWhitespace(txt, key.pos) IN
              IF colon > Len(txt) \/ txt[colon] # ":" THEN Fail
              ELSE LET value == ParseValue(txt, SkipWhitespace(txt, colon + 1)) IN
                   IF ~value.ok THEN Fail
                   ELSE LET next == SkipWhitespace(txt, value.pos)
                            dict == Put(acc, key.val, value.val)
                        IN IF next > Len(txt) THEN Fail
                           ELSE IF txt[next] = "}" THEN Parsed(dict, next + 1)
                           ELSE IF txt[next] = ","
                                THEN ParseMembers(txt, SkipWhitespace(txt, next + 1), dict)
                           ELSE Fail

\* a value at position i: a string or an object (the only values the
\* modelled files hold)
ParseValue(txt, i) ==
    IF i > Len(txt) THEN Fail
    ELSE IF txt[i] = Quote THEN
        LET s == ScanString(txt, i + 1, <<>>) IN
        IF s.ok THEN Parsed(Str(s.val), s.pos) ELSE Fail
    ELSE IF txt[i] = "{" THEN
        LET first == SkipWhitespace(txt, i + 1) IN
        IF first <= Len(txt) /\ txt[first] = "}" THEN Parsed(EmptyDict, first + 1)
        ELSE ParseMembers(txt, first, EmptyDict)
    ELSE Fail

\* json.load on a file's text: the value, or a JSONDecodeError
json_load(txt) ==
    LET v == ParseValue(txt, SkipWhitespace(txt, 1)) IN
    IF v.ok /\ SkipWhitespace(txt, v.pos) > Len(txt)
    THEN [raised |-> NoException, ret |-> v.val]
    ELSE [raised |-> "JSONDecodeError", ret |-> None]

-----------------------------------------------------------------------------
(* The inputs the model draws from *)

KeyNames == {<<"1">>, <<"2">>, <<"3">>}

\* a text with every kind of character json.dump treats differently: a plain
\* one, a quote, a backslash, a newline and a non-ASCII one
SampleText == <<"a", Quote, Backslash, Newline, "U+00e9">>
Cat == <<"c","a","t">>

ClassValues == {Str(Unknown), Str(Cat)}
TextValues == {Str(EmptyString), Str(SampleText)}

\* summary records: each of the two fields is absent or holds a string
SummaryRecords ==
    {Dict(<<>>)}
    \cup {Dict(<<Item(IdentifiedClass, c)>>) : c \in ClassValues}
    \cup {Dict(<<Item(ExtractedText, x)>>) : x \in TextValues}
    \cup {Dict(<<Item(IdentifiedClass, c), Item(ExtractedText, x)>>) :
             c \in ClassValues, x \in TextValues}

\* the injective key sequences of length n
KeySeqs(n) ==
    {ks \in [1..n -> KeyNames] : \A i, j \in 1..n : i # j => ks[i] # ks[j]}

\* the mappings of at most MaxEntries entries with records from R
MappingsOf(R) ==
    UNION {
        {Dict([i \in 1..n |-> Item(ks[i], rs[i])]) :
            ks \in KeySeqs(n), rs \in [1..n -> R]} :
        n \in 0..MaxEntries}

SummaryMappings == MappingsOf(SummaryRecords)

-----------------------------------------------------------------------------
(* Files *)

SummaryPath == "data/output/summary.json"
DefaultOutputPath == "data/output/cleaned_summary.json"
OtherOutputPath == "data/output/other.json"
\* a path whose parent directory does not exist
OrphanPath == "missing_dir/cleaned_summary.json"

Paths == {SummaryPath, DefaultOutputPath, OtherOutputPath, OrphanPath}
ParentExists(p) == p # OrphanPath

NoFiles == [p \in Paths |-> NoFile]

\* what an output file may hold before a run: the dump of an earlier mapping
OldMapping ==
    Dict(<<Item(<<"o","l","d">>,
                Dict(<<Item(IdentifiedClass, Str(Cat)),
                       Item(ExtractedText, Str(SampleText))>>))>>)
OldText == json_dump(OldMapping)

\* a text json.load rejects: an object cut off after its first key
MalformedText == <<"{", Quote, "1", Quote, ":">>

\* the variables of the image preprocessor, which the summary cleaner leaves alone
ImageIdle ==
    /\ image_path = None
    /\ image = None
    /\ target_size = None
    /\ listing = None
    /\ next_entry = 0
    /\ preprocessed_images = None

-----------------------------------------------------------------------------
(* Spec: a caller of clean_data *)

Init ==
    /\ pc = "start"
    /\ fs = NoFiles
    /\ output_path = DefaultOutputPath
    /\ summary \in SummaryMappings
    /\ cleaned_summary = None
    /\ cleaned_again = None
    /\ reread = None
    /\ processed_summaries = None
    /\ raised = NoException
    /\ console = <<>>
    /\ trace = <<>>
    /\ ImageIdle

\* CleanData as an implementation that filters its argument in place
CleanDataInPlace ==
    /\ pc = "start"
    /\ LET r == clean_data(summary) IN
         /\ cleaned_summary' = r.ret
         /\ summary' = IF r.raised = NoException THEN r.ret ELSE summary
         /\ raised' = r.raised
         /\ pc' = IF r.raised = NoException THEN "cleaned" ELSE "failed"
    /\ UNCHANGED <<fs, console, cleaned_again, reread, processed_summaries,
                   output_path, trace, imageVars>>

\* cleaned_summary = clean_data(summary)
CleanData ==
    /\ pc = "start"
    /\ LET r == clean_data(summary) IN
         /\ cleaned_summary' = r.ret
         /\ raised' = r.raised
         /\ pc' = IF r.raised = NoException THEN "cleaned" ELSE "failed"
    /\ UNCHANGED <<fs, console, summary, cleaned_again, reread,
                   processed_summaries, output_path, trace, imageVars>>

\* clean_data(cleaned_summary): the caller cleans the cleaned mapping again
CleanDataAgain ==
    /\ pc = "cleaned"
    /\ LET r == clean_data(cleaned_summary) IN
         /\ cleaned_again' = r.ret
         /\ raised' = r.raised
         /\ pc' = IF r.raised = NoException THEN "recleaned" ELSE "failed_again"
    /\ UNCHANGED <<fs, console, summary, cleaned_summary, reread,
                   processed_summaries, output_path, trace, imageVars>>

Next == CleanData \/ CleanDataAgain

Spec == Init /\ [][Next]_vars

-----------------------------------------------------------------------------
(* Properties of clean_data, under Spec *)

Records(d) == {d.items[i].v : i \in 1..Len(d.items)}

CarriesBoth(rec) == Has(rec, IdentifiedClass) /\ Has(rec, ExtractedText)
AllCarryBoth(d) == \A rec \in Records(d) : CarriesBoth(rec)

\* the record has a class other than "Unknown" and a non-empty text
Usable(rec) ==
    /\ Has(rec, IdentifiedClass) /\ Get(rec, IdentifiedClass) # Str(Unknown)
    /\ Has(rec, ExtractedText) /\ Get(rec, ExtractedText) # Str(EmptyString)

Returned == pc \in {"cleaned", "recleaned", "failed_again"}
Called == pc # "start"

\* C1: when every record of the input carries both fields, clean_data
\* returns a mapping whose keys are keys of the input and whose records all
\* have Identified Class != "Unknown" and Extracted Text != "".
C1_SubsetAndUsable ==
    (Called /\ AllCarryBoth(summary)) =>
        /\ Returned
        /\ Keys(cleaned_summary) \subseteq Keys(summary)
        /\ \A rec \in Records(cleaned_summary) : Usable(rec)

C1_Witness ==
    /\ pc = "cleaned"
    /\ AllCarryBoth(summary)
    /\ Len(summary.items) = 2
    /\ Len(cleaned_summary.items) = 1

LacksAField(rec) == ~Has(rec, IdentifiedClass) \/ ~Has(rec, ExtractedText)

\* C2 as stated: clean_data fails with a KeyError, returning no mapping,
\* whenever some record lacks Identified Class or lacks Extracted Text.
C2_AnyMissingFieldRaises ==
    (Called /\ \E rec \in Records(summary) : LacksAField(rec)) =>
        (pc = "failed" /\ raised = "KeyError" /\ cleaned_summary = None)

\* the record makes the condition of line 44 read a field that is absent
ReadsAbsentField(rec) ==
    \/ ~Has(rec, IdentifiedClass)
    \/ Get(rec, IdentifiedClass) # Str(Unknown) /\ ~Has(rec, ExtractedText)

\* C2 amended: clean_data fails with a KeyError, returning no mapping,
\* exactly when some record lacks Identified Class, or has an Identified
\* Class other than "Unknown" and lacks Extracted Text; a record whose class
\* is "Unknown" is dropped without its Extracted Text being read.
C2_RaisesIffAbsentFieldRead ==
    Called =>
        /\ (pc = "failed") <=> (\E rec \in Records(summary) : ReadsAbsentField(rec))
        /\ (pc = "failed") => (raised = "KeyError" /\ cleaned_summary = None)
        /\ (pc # "failed") => (raised = NoException /\ IsDict(cleaned_summary))

C2_Witness ==
    /\ pc = "cleaned"
    /\ \E rec \in Records(summary) :
         /\ Has(rec, IdentifiedClass) /\ Get(rec, IdentifiedClass) = Str(Unknown)
         /\ ~Has(rec, ExtractedText)

\* C3: a call of clean_data, whether it returns or fails, leaves its
\* argument with the same keys, fields and values.
C3_InputNotMutated == [][summary' = summary]_vars

C3_Witness ==
    \/ pc = "failed" /\ Len(summary.items) = 2
    \/ pc = "cleaned" /\ Len(summary.items) = 2 /\ Len(cleaned_summary.items) = 0

KeepUsable(item) == Usable(item.v)

\* C10: when every record carries both fields, the result is the input
\* restricted to the records with a class other than "Unknown" and a
\* non-empty text, each under its key with its value unchanged, and cleaning
\* the result again returns the same mapping.
C10_ExactFilterIdempotent ==
    (Called /\ AllCarryBoth(summary)) =>
        /\ Returned
        /\ cleaned_summary = Dict(SelectSeq(summary.items, KeepUsable))
        /\ pc = "recleaned" => cleaned_again = cleaned_summary
        /\ pc # "failed_again"

C10_Witness ==
    /\ pc = "recleaned"
    /\ AllCarryBoth(summary)
    /\ Len(summary.items) = 2
    /\ Len(cleaned_again.items) = 1
    /\ ~Usable(summary.items[1].v)

-----------------------------------------------------------------------------
(* save_cleaned_data *)

\* the message of line 58
SavedMessage(path) == [text |-> "Cleaned summary saved to", path |-> path]

\* open(path, 'w') followed by a write of text: the file is created or
\* truncated and then holds the text alone
WriteFile(old, text) == File(text)

\* save_cleaned_data(m, path) on the file system files: the exception raised
\* if any, the file system and the lines printed
save_cleaned_data(m, path, files) ==
    IF ~ParentExists(path)
    THEN [raised |-> "FileNotFoundError", fs |-> files, printed |-> <<>>]
    ELSE [raised |-> NoException,
          fs |-> [files EXCEPT ![path] = WriteFile(files[path], json_dump(m))],
          printed |-> <<SavedMessage(path)>>]

-----------------------------------------------------------------------------
(* SpecSave: a caller saves a mapping and reads the file back *)

InitSave ==
    /\ pc = "start"
    /\ fs = [NoFiles EXCEPT ![DefaultOutputPath] = File(OldText)]
    /\ output_path \in {DefaultOutputPath, OtherOutputPath, OrphanPath}
    /\ summary = None
    /\ cleaned_summary \in SummaryMappings
    /\ cleaned_again = None
    /\ reread = None
    /\ processed_summaries = None
    /\ raised = NoException
    /\ console = <<>>
    /\ trace = <<>>
    /\ ImageIdle

\* save_cleaned_data(cleaned_summary, output_path)
SaveCleanedData ==
    /\ pc = "start"
    /\ LET r == save_cleaned_data(cleaned_summary, output_path, fs) IN
         /\ fs' = r.fs
         /\ console' = console \o r.printed
         /\ raised' = r.raised
         /\ pc' = IF r.raised = NoException THEN "saved" ELSE "failed"
    /\ UNCHANGED <<cleanerVars, imageVars>>

\* with open(output_path) as f: json.load(f)
JsonRead ==
    /\ pc = "saved"
    /\ LET r == json_load(fs[output_path].text) IN
         /\ reread' = r.ret
         /\ raised' = r.raised
         /\ pc' = IF r.raised = NoException THEN "reread" ELSE "read_failed"
    /\ UNCHANGED <<fs, console, summary, cleaned_summary, cleaned_again,
                   processed_summaries, output_path, trace, imageVars>>

NextSave == SaveCleanedData \/ JsonRead

SpecSave == InitSave /\ [][NextSave]_vars

\* C4: once a mapping from string ids to summary records is saved, a JSON
\* read of the file succeeds and yields a mapping equal to the saved one,
\* entry by entry and in the same order, whatever the file held before.
C4_RoundTrip ==
    /\ pc \in {"saved", "reread", "read_failed"} => ParentExists(output_path)
    /\ pc # "read_failed"
    /\ pc = "reread" =>
        /\ raised = NoException
        /\ reread = cleaned_summary
        /\ DictEq(reread, cleaned_summary)

C4_Witness ==
    /\ pc = "reread"
    /\ output_path = DefaultOutputPath
    /\ Len(reread.items) = 2
    /\ \E rec \in Records(reread) :
         Has(rec, ExtractedText) /\ Get(rec, ExtractedText) = Str(SampleText)

-----------------------------------------------------------------------------
(* SpecMain: the script postprocessing.py run as __main__ *)

\* the message of line 74
NotFoundMessage(path) == [text |-> "Summary file not found at", path |-> path]

InitMain ==
    /\ pc = "start"
    /\ \E before \in {NoFile, File(MalformedText)}
                     \cup {File(json_dump(m)) : m \in SummaryMappings},
          out \in {NoFile, File(OldText)} :
         fs = [NoFiles EXCEPT ![SummaryPath] = before, ![DefaultOutputPath] = out]
    /\ output_path = DefaultOutputPath
    /\ summary = None
    /\ cleaned_summary = None
    /\ cleaned_again = None
    /\ reread = None
    /\ processed_summaries = None
    /\ raised = NoException
    /\ console = <<>>
    /\ trace = <<>>
    /\ ImageIdle

\* line 64, os.path.exists(summary_path) is true
MainFound ==
    /\ pc = "start"
    /\ fs[SummaryPath] # NoFile
    /\ pc' = "load"
    /\ UNCHANGED <<fs, raised, console, cleanerVars, imageVars>>

\* lines 73-74, os.path.exists(summary_path) is false
MainNotFound ==
    /\ pc = "start"
    /\ fs[SummaryPath] = NoFile
    /\ console' = Append(console, NotFoundMessage(SummaryPath))
    /\ pc' = "done"
    /\ UNCHANGED <<fs, raised, cleanerVars, imageVars>>

\* lines 65-66: summary = json.load(f)
MainLoad ==
    /\ pc = "load"
    /\ LET r == json_load(fs[SummaryPath].text) IN
         /\ summary' = r.ret
         /\ raised' = r.raised
         /\ pc' = IF r.raised = NoException THEN "clean" ELSE "error"
    /\ trace' = Append(trace, "load")
    /\ UNCHANGED <<fs, console, cleaned_summary, cleaned_again, reread,
                   processed_summaries, output_path, imageVars>>

\* line 69: cleaned_summary = clean_data(summary)
MainClean ==
    /\ pc = "clean"
    /\ LET r == clean_data(summary) IN
         /\ cleaned_summary' = r.ret
         /\ raised' = r.raised
         /\ pc' = IF r.raised = NoException THEN "save" ELSE "error"
    /\ trace' = Append(trace, "clean")
    /\ UNCHANGED <<fs, console, summary, cleaned_again, reread,
                   processed_summaries, output_path, imageVars>>

\* MainSave handing the loaded mapping, not the cleaned one, to save_cleaned_data
MainSaveLoaded ==
    /\ pc = "save"
    /\ LET r == save_cleaned_data(summary, DefaultOutputPath, fs) IN
         /\ fs' = r.fs
         /\ console' = console \o r.printed
         /\ raised' = r.raised
         /\ pc' = IF r.raised = NoException THEN "done" ELSE "error"
    /\ trace' = Append(trace, "save")
    /\ UNCHANGED <<summary, cleaned_summary, cleaned_again, reread,
                   processed_summaries, output_path, imageVars>>

\* line 72: save_cleaned_data(cleaned_summary), output_path at its default
MainSave ==
    /\ pc = "save"
    /\ LET r == save_cleaned_data(cleaned_summary, DefaultOutputPath, fs) IN
         /\ fs' = r.fs
         /\ console' = console \o r.printed
         /\ raised' = r.raised
         /\ pc' = IF r.raised = NoException THEN "done" ELSE "error"
    /\ trace' = Append(trace, "save")
    /\ UNCHANGED <<summary, cleaned_summary, cleaned_again, reread,
                   processed_summaries, output_path, imageVars>>

NextMain == MainFound \/ MainNotFound \/ MainLoad \/ MainClean \/ MainSave

SpecMain == InitMain /\ [][NextMain]_vars

\* the run is over: the script ran to its end or an exception ended it
Ended == pc \in {"done", "error"}

\* the summary file exists and json.load accepts it
Parses ==
    /\ fs[SummaryPath] # NoFile
    /\ json_load(fs[SummaryPath].text).raised = NoException

Loaded == json_load(fs[SummaryPath].text).ret

\* the run left the output file as it found it (a run that saves never
\* writes OldText, the dump of a mapping clean_data does not return here)
OutputUntouched == fs[DefaultOutputPath] \in {NoFile, File(OldText)}

\* the first half of C7: no summary file
AbsentBranch ==
    (Ended /\ fs[SummaryPath] = NoFile) =>
        /\ pc = "done" /\ raised = NoException
        /\ console = <<NotFoundMessage(SummaryPath)>>
        /\ trace = <<>>
        /\ OutputUntouched

\* C7 as stated: without a summary file the run reports it, writes nothing
\* and ends without error; with a summary file that parses the run ends
\* with the output file holding clean_data of the loaded mapping, after
\* load, clean and save in that order.
C7_MainAsStated ==
    /\ AbsentBranch
    /\ (Ended /\ Parses) =>
        /\ pc = "done"
        /\ trace = <<"load", "clean", "save">>
        /\ fs[DefaultOutputPath] = File(json_dump(clean_data(Loaded).ret))

\* C7 amended: as stated when clean_data returns for the loaded mapping;
\* when clean_data fails, the run ends with its KeyError after load and
\* clean, without a save and with the output file untouched.
C7_MainSavesWhenCleanReturns ==
    /\ AbsentBranch
    /\ (Ended /\ Parses /\ clean_data(Loaded).raised = NoException) =>
        /\ pc = "done" /\ raised = NoException
        /\ trace = <<"load", "clean", "save">>
        /\ fs[DefaultOutputPath] = File(json_dump(clean_data(Loaded).ret))
        /\ json_load(fs[DefaultOutputPath].text).ret = clean_data(Loaded).ret
    /\ (Ended /\ Parses /\ clean_data(Loaded).raised # NoException) =>
        /\ pc = "error" /\ raised = "KeyError"
        /\ trace = <<"load", "clean">>
        /\ OutputUntouched

C7_Witness ==
    /\ pc = "done"
    /\ trace = <<"load", "clean", "save">>
    /\ Len(summary.items) = 2
    /\ Len(cleaned_summary.items) = 1
    /\ console = <<SavedMessage(DefaultOutputPath)>>

-----------------------------------------------------------------------------
(* process_summaries *)

Description == <<"d","e","s","c","r","i","p","t","i","o","n">>
Summary == <<"s","u","m","m","a","r","y">>
NoDescriptionAvailable ==
    <<"N","o"," ","d","e","s","c","r","i","p","t","i","o","n"," ",
      "a","v","a","i","l","a","b","l","e">>
NoSummaryAvailable ==
    <<"N","o"," ","s","u","m","m","a","r","y"," ","a","v","a","i","l","a","b","l","e">>

\* data.get(key, default)
GetOr(data, key, default) == IF Has(data, key) THEN Get(data, key) ELSE default

\* ProcessedRecord with the default of summary given to both fields
ProcessedRecordOneDefault(data) ==
    Dict(<<Item(Description, GetOr(data, Description, Str(NoSummaryAvailable))),
           Item(Summary, GetOr(data, Summary, Str(NoSummaryAvailable)))>>)

\* the dict literal of lines 15-18
ProcessedRecord(data) ==
    Dict(<<Item(Description, GetOr(data, Description, Str(NoDescriptionAvailable))),
           Item(Summary, GetOr(data, Summary, Str(NoSummaryAvailable)))>>)

\* the for loop of lines 14-18 from item i on; a str has no get method
RECURSIVE ProcessLoop(_, _, _)
ProcessLoop(items, i, acc) ==
    IF i > Len(items) THEN [raised |-> NoException, ret |-> acc]
    ELSE IF ~IsDict(items[i].v) THEN [raised |-> "AttributeError", ret |-> None]
    ELSE ProcessLoop(items, i + 1, Put(acc, items[i].k, ProcessedRecord(items[i].v)))

\* process_summaries(path) on the file system files
process_summaries(path, files) ==
    IF files[path] = NoFile THEN [raised |-> "FileNotFoundError", ret |-> None]
    ELSE LET summaries == json_load(files[path].text) IN
         IF summaries.raised # NoException THEN [raised |-> summaries.raised, ret |-> None]
         ELSE IF ~IsDict(summaries.ret) THEN [raised |-> "AttributeError", ret |-> None]
         ELSE ProcessLoop(summaries.ret.items, 1, EmptyDict)

-----------------------------------------------------------------------------
(* SpecSummaries: a caller of process_summaries *)

ADescription == <<"a", " ", Quote, "d", Quote>>
ASummary == <<"s", "U+00e9">>

\* source records: description and summary each absent or present, with or
\* without a field process_summaries does not read; and a value that is no
\* record at all
SourceRecords ==
    {Dict(d \o s \o x) :
        d \in {<<>>, <<Item(Description, Str(ADescription))>>},
        s \in {<<>>, <<Item(Summary, Str(ASummary))>>},
        x \in {<<>>, <<Item(IdentifiedClass, Str(Cat))>>}}
    \cup {Str(Cat)}

SourceMappings == MappingsOf(SourceRecords)

InitSummaries ==
    /\ pc = "start"
    /\ \E source \in {NoFile, File(MalformedText), File(json_dump(Str(Cat)))}
                     \cup {File(json_dump(m)) : m \in SourceMappings} :
         fs = [NoFiles EXCEPT ![SummaryPath] = source]
    /\ output_path = DefaultOutputPath
    /\ summary = None
    /\ cleaned_summary = None
    /\ cleaned_again = None
    /\ reread = None
    /\ processed_summaries = None
    /\ raised = NoException
    /\ console = <<>>
    /\ trace = <<>>
    /\ ImageIdle

\* processed_summaries = process_summaries(summary_path)
ProcessSummaries ==
    /\ pc = "start"
    /\ LET r == process_summaries(SummaryPath, fs) IN
         /\ processed_summaries' = r.ret
         /\ raised' = r.raised
         /\ pc' = IF r.raised = NoException THEN "returned" ELSE "failed"
    /\ UNCHANGED <<fs, console, summary, cleaned_summary, cleaned_again, reread,
                   output_path, trace, imageVars>>

NextSummaries == ProcessSummaries

SpecSummaries == InitSummaries /\ [][NextSummaries]_vars

\* the file holds a mapping whose values are all records
WellFormedSource ==
    /\ fs[SummaryPath] # NoFile
    /\ json_load(fs[SummaryPath].text).raised = NoException
    /\ IsDict(Loaded)
    /\ \A rec \in Records(Loaded) : IsDict(rec)

\* C8: for a well-formed source mapping the result has the source's keys,
\* and each result record has exactly the fields description and summary,
\* each the source record's value when present and its default string when
\* absent; nothing is filtered and no other field is kept.
C8_NoFilteringDefaults ==
    (pc \in {"returned", "failed"} /\ WellFormedSource) =>
        /\ pc = "returned"
        /\ Keys(processed_summaries) = Keys(Loaded)
        /\ Len(processed_summaries.items) = Len(Loaded.items)
        /\ \A k \in Keys(Loaded) :
            LET src == Get(Loaded, k)
                res == Get(processed_summaries, k)
            IN /\ IsDict(res)
               /\ Keys(res) = {Description, Summary}
               /\ Len(res.items) = 2
               /\ Get(res, Description) =
                    IF Has(src, Description) THEN Get(src, Description)
                    ELSE Str(NoDescriptionAvailable)
               /\ Get(res, Summary) =
                    IF Has(src, Summary) THEN Get(src, Summary)
                    ELSE Str(NoSummaryAvailable)

C8_Witness ==
    /\ pc = "returned"
    /\ Len(processed_summaries.items) = 2
    /\ \E rec \in Records(Loaded) :
         /\ ~Has(rec, Description) /\ Has(rec, Summary) /\ Has(rec, IdentifiedClass)
    /\ \E rec \in Records(Loaded) : Has(rec, Description) /\ ~Has(rec, Summary)

-----------------------------------------------------------------------------
(* preprocess_image                                                        *)
(* A directory entry or path is [name, kind]; its kind says what the file  *)
(* system holds there.  An opened image is [mode, width, height, of], a    *)
(* tensor is [shape, normalized, of], `of` naming the file it came from.   *)

\* kinds of directory entries
RegularKinds == {"rgb_image", "gray_image", "not_image", "truncated_image"}
EntryKinds == RegularKinds \cup {"directory"}
\* kinds of paths preprocess_image may be called on
PathKinds == EntryKinds \cup {"missing"}

Entry(name, kind) == [name |-> name, kind |-> kind]

\* os.path.isfile(file_path)
IsFile(entry) == entry.kind \in RegularKinds

\* Image.open(image_path): it reads the header only, so a truncated image
\* opens; the samples are a 100x300 RGB image and a 64x48 greyscale one
ImageOpen(file) ==
    CASE file.kind = "missing" -> [raised |-> "FileNotFoundError", ret |-> None]
      [] file.kind = "directory" -> [raised |-> "IsADirectoryError", ret |-> None]
      [] file.kind = "not_image" -> [raised |-> "UnidentifiedImageError", ret |-> None]
      [] file.kind = "rgb_image" ->
            [raised |-> NoException,
             ret |-> [mode |-> "RGB", width |-> 100, height |-> 300,
                      complete |-> TRUE, of |-> file.name]]
      [] file.kind = "gray_image" ->
            [raised |-> NoException,
             ret |-> [mode |-> "L", width |-> 64, height |-> 48,
                      complete |-> TRUE, of |-> file.name]]
      [] file.kind = "truncated_image" ->
            [raised |-> NoException,
             ret |-> [mode |-> "RGB", width |-> 100, height |-> 300,
                      complete |-> FALSE, of |-> file.name]]

\* image.convert("RGB"): it loads the pixel data, which fails on a truncated file
ConvertRGB(img) ==
    IF ~img.complete THEN [raised |-> "OSError", ret |-> None]
    ELSE [raised |-> NoException, ret |-> [img EXCEPT !.mode = "RGB"]]

Channels(mode) == IF mode = "RGB" THEN 3 ELSE 1

\* transforms.Resize((224, 224))
Resize224(img) == [img EXCEPT !.width = 224, !.height = 224]

\* transforms.ToTensor(): channel-first, values scaled into [0, 1]
ToTensor(img) ==
    [shape |-> <<Channels(img.mode), img.height, img.width>>,
     normalized |-> FALSE, of |-> img.of]

\* transforms.Normalize(mean, std) with three means and deviations
Normalize(tensor) ==
    IF tensor.shape[1] # 3 THEN [raised |-> "RuntimeError", ret |-> None]
    ELSE [raised |-> NoException, ret |-> [tensor EXCEPT !.normalized = TRUE]]

\* the message of line 61
ErrorMessage(file, e) == [text |-> "Error processing", path |-> file.name, error |-> e]

\* the except clause of lines 60-62
Handler(file, e) ==
    [raised |-> NoException, ret |-> None, printed |-> <<ErrorMessage(file, e)>>]

\* the body of the try statement, lines 46-58
TryBody(file) ==
    LET opened == ImageOpen(file) IN
    IF opened.raised # NoException THEN [raised |-> opened.raised, ret |-> None]
    ELSE LET converted == ConvertRGB(opened.ret) IN
         IF converted.raised # NoException
         THEN [raised |-> converted.raised, ret |-> None]
         ELSE Normalize(ToTensor(Resize224(converted.ret)))

\* preprocess_image whose except clause names FileNotFoundError alone
preprocess_image_narrow(file) ==
    LET body == TryBody(file) IN
    IF body.raised = "FileNotFoundError" THEN Handler(file, body.raised)
    ELSE [raised |-> body.raised, ret |-> body.ret, printed |-> <<>>]

\* preprocess_image(image_path): `except Exception` catches whatever the
\* body raises
preprocess_image(file) ==
    LET body == TryBody(file) IN
    IF body.raised # NoException THEN Handler(file, body.raised)
    ELSE [raised |-> NoException, ret |-> body.ret, printed |-> <<>>]

-----------------------------------------------------------------------------
(* SpecImages: preprocess_image and preprocess_images_in_directory *)

\* greatest number of entries of the input directory
MaxListing == 3

\* os.listdir's results: entry i is named i
Listings ==
    UNION {{[i \in 1..n |-> Entry(i, kinds[i])] : kinds \in [1..n -> EntryKinds]} :
           n \in 0..MaxListing}

\* the input directory does not exist
NoDirectory == <<Entry(0, "missing")>>

InitImages ==
    /\ pc = "start"
    /\ fs = NoFiles
    /\ raised = NoException
    /\ console = <<>>
    /\ summary = None
    /\ cleaned_summary = None
    /\ cleaned_again = None
    /\ reread = None
    /\ processed_summaries = None
    /\ output_path = DefaultOutputPath
    /\ trace = <<>>
    /\ image_path \in {Entry(0, k) : k \in PathKinds}
    /\ image = None
    /\ target_size = None
    /\ listing \in Listings \cup {NoDirectory}
    /\ next_entry = 0
    /\ preprocessed_images = None

\* a direct call: image = preprocess_image(image_path)
PreprocessImage ==
    /\ pc = "start"
    /\ LET r == preprocess_image(image_path) IN
         /\ image' = r.ret
         /\ raised' = r.raised
         /\ console' = console \o r.printed
         /\ pc' = IF r.raised = NoException THEN "image_returned" ELSE "image_failed"
    /\ UNCHANGED <<fs, cleanerVars, image_path, target_size, listing, next_entry,
                   preprocessed_images>>

\* lines 74-77: the accumulator is created and the directory listed
ListDirectory ==
    /\ pc = "start"
    /\ IF listing = NoDirectory
       THEN /\ raised' = "FileNotFoundError"
            /\ pc' = "listing_failed"
            /\ next_entry' = next_entry
       ELSE /\ raised' = raised
            /\ pc' = "loop"
            /\ next_entry' = 1
    /\ preprocessed_images' = <<>>
    /\ UNCHANGED <<fs, console, cleanerVars, image_path, image, target_size, listing>>

\* lines 78-79 for an entry that is no regular file
LoopSkipEntry ==
    /\ pc = "loop"
    /\ next_entry <= Len(listing)
    /\ ~IsFile(listing[next_entry])
    /\ next_entry' = next_entry + 1
    /\ UNCHANGED <<pc, fs, raised, console, cleanerVars, image_path, image,
                   target_size, listing, preprocessed_images>>

\* LoopFileEntry without the test of line 81
LoopFileEntryAppendAll ==
    /\ pc = "loop"
    /\ next_entry <= Len(listing)
    /\ IsFile(listing[next_entry])
    /\ LET r == preprocess_image(listing[next_entry]) IN
         /\ image' = r.ret
         /\ raised' = r.raised
         /\ console' = console \o r.printed
         /\ preprocessed_images' = Append(preprocessed_images, r.ret)
         /\ pc' = IF r.raised = NoException THEN "loop" ELSE "loop_failed"
    /\ next_entry' = next_entry + 1
    /\ UNCHANGED <<fs, cleanerVars, image_path, target_size, listing>>

\* lines 78-82 for a regular file
LoopFileEntry ==
    /\ pc = "loop"
    /\ next_entry <= Len(listing)
    /\ IsFile(listing[next_entry])
    /\ LET r == preprocess_image(listing[next_entry]) IN
         /\ image' = r.ret
         /\ raised' = r.raised
         /\ console' = console \o r.printed
         /\ preprocessed_images' =
              IF r.raised = NoException /\ r.ret # None
              THEN Append(preprocessed_images, r.ret)
              ELSE preprocessed_images
         /\ pc' = IF r.raised = NoException THEN "loop" ELSE "loop_failed"
    /\ next_entry' = next_entry + 1
    /\ UNCHANGED <<fs, cleanerVars, image_path, target_size, listing>>

\* line 84: the loop is over
LoopReturn ==
    /\ pc = "loop"
    /\ next_entry > Len(listing)
    /\ pc' = "returned"
    /\ UNCHANGED <<fs, raised, console, cleanerVars, imageVars>>

NextImages ==
    PreprocessImage \/ ListDirectory \/ LoopSkipEntry \/ LoopFileEntry \/ LoopReturn

SpecImages == InitImages /\ [][NextImages]_vars

ValidKinds == {"rgb_image", "gray_image"}

\* the tensor of a valid image file
IsTensorOf(tensor, file) ==
    /\ tensor # None
    /\ tensor.shape = <<3, 224, 224>>
    /\ tensor.normalized
    /\ tensor.of = file.name

\* C5: a call of preprocess_image never ends with an exception; when loading
\* or a transformation fails it prints the error and returns None, and it
\* returns a tensor only when every step succeeded.
C5_NeverRaises ==
    /\ pc \notin {"image_failed", "loop_failed"}
    /\ pc = "image_returned" =>
        /\ raised = NoException
        /\ image_path.kind \in ValidKinds =>
             (IsTensorOf(image, image_path) /\ console = <<>>)
        /\ image_path.kind \notin ValidKinds =>
             /\ image = None
             /\ Len(console) = 1
             /\ console[1].text = "Error processing"
             /\ console[1].path = image_path.name
    /\ pc = "loop" => raised = NoException

C5_Witness ==
    /\ pc = "image_returned"
    /\ image_path.kind = "truncated_image"
    /\ image = None
    /\ console = <<ErrorMessage(image_path, "OSError")>>

IsValidFile(entry) == entry.kind \in ValidKinds

\* C6: preprocess_images_in_directory returns one tensor for each entry
\* that is a regular file holding a valid image, in the order of the
\* listing; other entries add nothing and do not end the loop.
C6_DirectoryResult ==
    /\ pc # "loop_failed"
    /\ pc = "returned" =>
        LET valid == SelectSeq(listing, IsValidFile) IN
        /\ raised = NoException
        /\ Len(preprocessed_images) = Len(valid)
        /\ \A i \in 1..Len(valid) : IsTensorOf(preprocessed_images[i], valid[i])

C6_Witness ==
    /\ pc = "returned"
    /\ Len(listing) = 3
    /\ listing[1].kind = "rgb_image"
    /\ listing[2].kind = "not_image"
    /\ listing[3].kind = "rgb_image"
    /\ Len(preprocessed_images) = 2

-----------------------------------------------------------------------------
(* preprocess_segmented_object                                             *)
(* An array is a sequence of sequences of sequences; cv2.imread's result   *)
(* is indexed [row][column][channel], rows being the image's height.       *)

\* a numpy array holding data
Array(data) == [t |-> "ndarray", data |-> data]

Shape(a) == <<Len(a), Len(a[1]), Len(a[1][1])>>

\* cv2.imread(image_path): the pixels as 8-bit BGR, or None when the file
\* cannot be read or decoded (imread raises nothing)
ImRead(file) == IF file.kind = "bgr_image" THEN Array(file.pixels) ELSE None

\* The source position and weight of bilinear interpolation along one axis,
\* for destination index d (from 0), as cv2.resize computes them: the
\* position is (d + 0.5) * src / dst - 0.5, clamped to the source, and the
\* weight of the next sample is kept in 11-bit fixed point, so that every
\* result is a rounded weighted mean of source values
AxisSample(d, src, dst) ==
    LET num == (2 * d + 1) * src - dst
        den == 2 * dst
        at == IF num < 0 THEN 0 ELSE num \div den
        frac == IF num < 0 THEN 0 ELSE num - at * den
    IN IF at >= src - 1
       THEN [at |-> src - 1, next |-> src - 1, w |-> 0]
       ELSE [at |-> at, next |-> at + 1, w |-> (2 * frac * 2048 + den) \div (2 * den)]

\* cv2.resize(image, dsize): dsize is (width, height), so the result has
\* dsize[1] rows and dsize[0] columns (a tuple's first element is [1] here)
CvResize(img, dsize) ==
    LET srcH == Len(img)
        srcW == Len(img[1])
        dstW == dsize[1]
        dstH == dsize[2]
    IN [y \in 1..dstH |->
         [x \in 1..dstW |->
           [c \in 1..Len(img[1][1]) |->
             LET sy == AxisSample(y - 1, srcH, dstH)
                 sx == AxisSample(x - 1, srcW, dstW)
                 top == img[sy.at + 1][sx.at + 1][c] * (2048 - sx.w)
                        + img[sy.at + 1][sx.next + 1][c] * sx.w
                 bottom == img[sy.next + 1][sx.at + 1][c] * (2048 - sx.w)
                           + img[sy.next + 1][sx.next + 1][c] * sx.w
             IN (top * (2048 - sy.w) + bottom * sy.w + 2097152) \div 4194304]]]

\* image.astype(np.float32) / 255.0: a value v becomes the fraction v / 255
ScaleToUnit(img) ==
    [y \in 1..Len(img) |->
      [x \in 1..Len(img[1]) |->
        [c \in 1..Len(img[1][1]) |-> [num |-> img[y][x][c], den |-> 255]]]]

\* Transpose with the axes reversed, (2, 1, 0)
TransposeReversed(img) ==
    [c \in 1..Len(img[1][1]) |->
      [x \in 1..Len(img[1]) |->
        [y \in 1..Len(img) |-> img[y][x][c]]]]

\* np.transpose(image, (2, 0, 1)): height-width-channel to channel-height-width
Transpose(img) ==
    [c \in 1..Len(img[1][1]) |->
      [y \in 1..Len(img) |->
        [x \in 1..Len(img[1]) |-> img[y][x][c]]]]

-----------------------------------------------------------------------------
(* SpecSegmented: a caller of preprocess_segmented_object *)

\* greatest height and width of a source image
MaxSide == 2
\* greatest width and height asked for in target_size
MaxTarget == 2

\* the pixels the sample images are made of, as (B, G, R)
Palette == {<<0, 0, 0>>, <<255, 128, 1>>}

ImageArrays ==
    UNION {[1..h -> [1..w -> Palette]] : h \in 1..MaxSide, w \in 1..MaxSide}

SegmentFiles ==
    {[name |-> 0, kind |-> "bgr_image", pixels |-> a] : a \in ImageArrays}
    \cup {[name |-> 0, kind |-> k, pixels |-> None] : k \in {"missing", "not_image"}}

InitSegmented ==
    /\ pc = "start"
    /\ fs = NoFiles
    /\ raised = NoException
    /\ console = <<>>
    /\ summary = None
    /\ cleaned_summary = None
    /\ cleaned_again = None
    /\ reread = None
    /\ processed_summaries = None
    /\ output_path = DefaultOutputPath
    /\ trace = <<>>
    /\ image_path \in SegmentFiles
    /\ image = None
    /\ target_size \in (1..MaxTarget) \X (1..MaxTarget)
    /\ listing = None
    /\ next_entry = 0
    /\ preprocessed_images = None

segmentFrame == <<fs, console, cleanerVars, image_path, target_size, listing,
                  next_entry, preprocessed_images>>

\* line 21: image = cv2.imread(image_path)
SegLoad ==
    /\ pc = "start"
    /\ image' = ImRead(image_path)
    /\ pc' = "resize"
    /\ UNCHANGED <<raised, segmentFrame>>

\* line 24: image = cv2.resize(image, target_size); cv2.error on None
SegResize ==
    /\ pc = "resize"
    /\ IF image.t = "None"
       THEN /\ raised' = "cv2.error"
            /\ pc' = "failed"
            /\ image' = image
       ELSE /\ raised' = raised
            /\ pc' = "scale"
            /\ image' = Array(CvResize(image.data, target_size))
    /\ UNCHANGED segmentFrame

\* line 27: image = image.astype(np.float32) / 255.0
SegScale ==
    /\ pc = "scale"
    /\ image' = Array(ScaleToUnit(image.data))
    /\ pc' = "transpose"
    /\ UNCHANGED <<raised, segmentFrame>>

\* lines 31-33: image = np.transpose(image, (2, 0, 1)); return image
SegTranspose ==
    /\ pc = "transpose"
    /\ image' = Array(Transpose(image.data))
    /\ pc' = "returned"
    /\ UNCHANGED <<raised, segmentFrame>>

NextSegmented == SegLoad \/ SegResize \/ SegScale \/ SegTranspose

SpecSegmented == InitSegmented /\ [][NextSegmented]_vars

\* every value of a channel-first array is a fraction v / 255 with v in 0..255
ValuesInUnit(a) ==
    \A c \in 1..Len(a) : \A y \in 1..Len(a[c]) : \A x \in 1..Len(a[c][y]) :
        /\ a[c][y][x].den = 255
        /\ a[c][y][x].num \in 0..255

\* C9 as stated: the array returned for a readable image has the shape
\* (3, H, W) with (H, W) = target_size, and values within [0, 1].
C9_ShapeIsTargetSize ==
    pc = "returned" =>
        /\ Shape(image.data) = <<3, target_size[1], target_size[2]>>
        /\ ValuesInUnit(image.data)

\* C9 amended: target_size is (width, height), as the docstring says, so the
\* array returned has the shape (3, target_size[1], target_size[0]), that is
\* (3, height, width); its values are within [0, 1]; an unreadable image
\* makes the call fail.
C9_ShapeIsHeightWidth ==
    /\ pc = "returned" =>
        /\ image_path.kind = "bgr_image"
        /\ Shape(image.data) = <<3, target_size[2], target_size[1]>>
        /\ ValuesInUnit(image.data)
    /\ pc = "failed" => image_path.kind # "bgr_image"

C9_Witness ==
    /\ pc = "returned"
    /\ target_size = <<2, 1>>
    /\ Shape(image_path.pixels) = <<2, 2, 3>>
    /\ Shape(image.data) = <<3, 1, 2>>
    /\ \E x \in 1..2 : image.data[2][1][x].num \notin {0, 128}
====
